---- MODULE Spec2Model ----
(***************************************************************************)
(* Direct Waste Link / MultiWaste CPOTL: the pickup-request lifecycle, the *)
(* ledger store with hash-derived tx_id, the token store, matchmaking and  *)
(* the schedule -> settle -> reward sequence.                              *)
(*                                                                         *)
(* Conventions.  A nullable SQL / Python value is a sequence of length at  *)
(* most one: NULL / None is << >>, the value v is << v >>.  A weight is an *)
(* integer number of hundredths of a kilogram (320 is 3.2 kg); for every   *)
(* such weight up to 2000 kg the double-precision value of weight*10       *)
(* truncates to the same integer as the exact quotient, so int(weight*10)  *)
(* is computed on the integer.  A ledger total is in hundredths likewise.  *)
(***************************************************************************)
EXTENDS Integers, Sequences, FiniteSets, TLC

VARIABLES
    requests,      \* pps.py: table requests of dwl.db, rows in insertion order
    session,       \* pps.py: collector sessions, each a script run position
    row_changes,   \* history: per request id, the UPDATEs that changed its row
    submitted,     \* history: the last household submission and the row it stored
    db_requests,   \* modules/db.py: table requests of multiwaste.db
    pickup,        \* the handle returned by the last create_pickup call
    tokens_json,   \* modules/tokens.py: content of the file tokens.json
    award,         \* modules/tokens.py: award_tokens call frame per session
    granted,       \* history: per household, sum of amounts award_tokens returned
    last_award,    \* history: the last completed award_tokens call
    ledger,        \* modules/db.py: table ledger of multiwaste.db
    now,           \* the wall clock datetime.utcnow() reads
    calls,         \* history: the record_transaction calls made, in order
    upsert,        \* history: the last add_ledger_entry call
    COLLECTORS,    \* modules/matchmaking.py: the collector list
    found,         \* the last find_collectors_for call: material and result
    flow           \* the household flow: match -> schedule -> settle -> reward

vars == << requests, session, row_changes, submitted, db_requests, pickup, tokens_json,
           award, granted, last_award, ledger, now, calls, upsert,
           COLLECTORS, found, flow >>

reqVars   == << requests, session, row_changes, submitted >>
dbReqVars == << db_requests, pickup >>
tokVars   == << tokens_json, award, granted, last_award >>
ledVars   == << ledger, now, calls, upsert >>
matchVars == << COLLECTORS, found >>

(***************************************************************************)
(* Bounds and input sets.                                                  *)
(***************************************************************************)
MaxRequests == 2    \* rows of the requests table of dwl.db
MaxPickups  == 1    \* rows of the requests table of multiwaste.db
MaxAwards   == 3    \* award_tokens calls started
MaxCalls    == 2    \* record_transaction calls
MaxTime     == 2    \* clock readings 0 .. MaxTime
MaxList     == 3    \* length of a collector list
MaxFlows    == 2    \* household flows started

None == << >>
Some(v) == << v >>

Sessions   == {"s1", "s2"}
Households == {"H1", "H2"}
\* what a collector types into the "Namamu untuk assign" text input
TypedNames == {"Pengepul X", "Pengepul Y", ""}

(***************************************************************************)
(* pps.py: the request store and the collector role.                       *)
(***************************************************************************)

\* add_request: INSERT with status 'OPEN' and assigned_collector NULL; the
\* AUTOINCREMENT id of a table no row is ever deleted from is its length + 1.
add_request(tbl, household_name, reported_waste_type, model_waste_type, weight_kg, photo_path) ==
    Append(tbl, [id |-> Len(tbl) + 1,
                 household_name |-> household_name,
                 reported_waste_type |-> reported_waste_type,
                 model_waste_type |-> model_waste_type,
                 weight_kg |-> weight_kg,
                 photo_path |-> photo_path,
                 status |-> "OPEN",
                 assigned_collector |-> None])

\* list_requests(status): SELECT * ... WHERE status=?; the ids of the rows.
list_requests(tbl, status) ==
    {tbl[i].id : i \in {j \in 1..Len(tbl) : tbl[j].status = status}}

\* assign_collector: UPDATE requests SET status, assigned_collector WHERE id=?
\* (no condition on the row's current status).
assign_collector_status_only(tbl, request_id, collector_name) ==
    [i \in 1..Len(tbl) |->
        IF tbl[i].id = request_id
        THEN [tbl[i] EXCEPT !.status = "ASSIGNED"]
        ELSE tbl[i]]

assign_collector(tbl, request_id, collector_name) ==
    [i \in 1..Len(tbl) |->
        IF tbl[i].id = request_id
        THEN [tbl[i] EXCEPT !.status = "ASSIGNED",
                            !.assigned_collector = Some(collector_name)]
        ELSE tbl[i]]

\* heuristic_image_classify: any exception (an undecodable image among
\* them) gives "Unknown"; brightness is tested before the aspect ratio.
heuristic_image_classify(image) ==
    IF image.decodable = FALSE THEN "Unknown"
    ELSE IF image.brightness > 130 THEN "Plastic (likely)"
    ELSE IF image.ratio10 > 18 THEN "Textile (likely)"
    ELSE "Paper / Cardboard (likely)"

\* A text is the sequence of its lines, a whitespace-only line being "".
\* text.strip(): the leading and the trailing whitespace go, blank lines
\* among them.
RECURSIVE lstrip_lines(_)
lstrip_lines(text) ==
    IF text = << >> THEN << >>
    ELSE IF Head(text) = "" THEN lstrip_lines(Tail(text))
    ELSE text

RECURSIVE rstrip_lines(_)
rstrip_lines(text) ==
    IF text = << >> THEN << >>
    ELSE IF text[Len(text)] = "" THEN rstrip_lines(SubSeq(text, 1, Len(text) - 1))
    ELSE text

strip_lines(text) == rstrip_lines(lstrip_lines(text))

\* classify_with_gemini: None when USE_GEMINI is off, when the import or the
\* call raises, and when the extracted text is None or empty (not text); a
\* whitespace-only text strips to no line at all, splitlines()[0] raises
\* IndexError, and the except branch returns None.  Otherwise the first
\* line of the stripped text.
classify_with_gemini(gemini) ==
    CASE gemini.outcome = "off"    -> None
      [] gemini.outcome = "raises" -> None
      [] gemini.outcome = "text"   ->
            IF gemini.text = << >> THEN None
            ELSE LET lines == strip_lines(gemini.text)
                 IN  IF lines = << >> THEN None ELSE Some(lines[1])

\* the model_waste_type the submit handler computes (lines 241-257): None
\* without a photo; with one, the remote label unless it is None or empty
\* (not model_waste_type), then the heuristic; the heuristic on the uploaded
\* bytes as well when reading the saved file back raises (lines 256-257).
model_waste_type_no_fallback(photo, gemini) ==
    IF photo = None THEN None
    ELSE IF photo[1].readable = FALSE
         THEN Some(heuristic_image_classify(photo[1]))
         ELSE classify_with_gemini(gemini)

model_waste_type(photo, gemini) ==
    IF photo = None THEN None
    ELSE IF photo[1].readable = FALSE
         THEN Some(heuristic_image_classify(photo[1]))
         ELSE LET remote == classify_with_gemini(gemini)
              IN  IF remote = None \/ remote = Some("")
                  THEN Some(heuristic_image_classify(photo[1]))
                  ELSE remote

\* Household role, form submitted: classify the photo if there is one, then
\* add_request.
HouseholdSubmit(household_name, reported_waste_type, weight_kg, photo, gemini) ==
    /\ requests' = add_request(requests, household_name, reported_waste_type,
                               model_waste_type(photo, gemini), weight_kg,
                               IF photo = None THEN None ELSE Some(photo[1].name))
    /\ row_changes' = Append(row_changes, 0)
    /\ submitted' = Some([photo |-> photo, gemini |-> gemini,
                          id |-> Len(requests) + 1])
    /\ UNCHANGED session

\* Collector role, a script run reaches line 272: df_open =
\* list_requests(status="OPEN").  Each session's run is a thread of its own;
\* the loop over df_open that follows works on this snapshot.
CollectorList(s) ==
    /\ session' = [session EXCEPT ![s] = [pc |-> "listed",
                                          df_open |-> list_requests(requests, "OPEN")]]
    /\ UNCHANGED << requests, row_changes, submitted >>

\* Collector role, the same run reaches line 297 for a row of df_open whose
\* "Ambil/Assign" button was pressed: assign_collector(int(row['id']),
\* collector_name), then st.experimental_rerun() ends the run.
CollectorAssign(s, request_id, collector_name) ==
    /\ session[s].pc = "listed"
    /\ request_id \in session[s].df_open
    /\ requests' = assign_collector(requests, request_id, collector_name)
    /\ row_changes' = [i \in 1..Len(row_changes) |->
                          IF requests'[i] # requests[i]
                          THEN row_changes[i] + 1 ELSE row_changes[i]]
    /\ session' = [session EXCEPT ![s] = [pc |-> "idle", df_open |-> {}]]
    /\ UNCHANGED submitted

(***************************************************************************)
(* modules/db.py and modules/scheduler.py: the scheduler's request store.  *)
(***************************************************************************)

\* db.add_request: INSERT (created_at, household, address, material, weight,
\* status) with status 'OPEN'; collector and tx_id are left NULL.
db_add_request(tbl, household, address, material, weight) ==
    Append(tbl, [id |-> Len(tbl) + 1,
                 household |-> household,
                 address |-> address,
                 material |-> material,
                 weight |-> weight,
                 status |-> "OPEN",
                 collector |-> None,
                 tx_id |-> None])

\* create_pickup's return value; uuid4 is a fresh identifier, here the
\* number of the call.
create_pickup_handle(n, collector) ==
    [pickup_id |-> n, status |-> "SCHEDULED", collector |-> collector]

\* scheduler.create_pickup
CreatePickup(household, address, collector, material, weight) ==
    /\ db_requests' = db_add_request(db_requests, household, address, material, weight)
    /\ pickup' = Some(create_pickup_handle(Len(db_requests'), collector))

(***************************************************************************)
(* modules/tokens.py: token accounting in the file tokens.json.            *)
(***************************************************************************)
Materials == {"Plastik PET", "Kertas"}
\* weights in hundredths of a kg: -0.25, 0, 1.0, 3.2
Weights   == {-25, 0, 100, 320}

EmptyDict == [h \in {} |-> 0]

\* dict.get(key, default)
dict_get(data, key, default) ==
    IF key \in DOMAIN data THEN data[key] ELSE default

\* data[key] = value
dict_set(data, key, value) ==
    [k \in DOMAIN data \cup {key} |-> IF k = key THEN value ELSE data[k]]

\* int(weight*10) with weight in hundredths: the quotient weight/10 cut
\* toward zero (\div rounds toward minus infinity).
int_weight_x10_floor(weight) == weight \div 10

int_weight_x10(weight) ==
    IF weight >= 0 THEN weight \div 10 ELSE -((-weight) \div 10)

\* get_balance
get_balance(household) == dict_get(tokens_json, household, 0)

IdleFrame == [pc |-> "idle", household |-> "", material |-> "", weight |-> 0,
              data |-> EmptyDict]

AwardsStarted ==
    LET RECURSIVE Sum(_)
        Sum(S) == IF S = {} THEN 0
                  ELSE LET h == CHOOSE x \in S : TRUE
                       IN  granted[h].n + Sum(S \ {h})
    IN  Sum(Households) + Cardinality({s \in Sessions : award[s].pc = "loaded"})

\* award_tokens, line 8: data = json.load(open(STORE))
AwardLoad(s, household, material, weight) ==
    /\ award[s].pc = "idle"
    /\ award' = [award EXCEPT ![s] = [pc |-> "loaded", household |-> household,
                                      material |-> material, weight |-> weight,
                                      data |-> tokens_json]]
    /\ UNCHANGED << tokens_json, granted, last_award >>

\* award_tokens, lines 9-12: tokens = int(weight*10); data[household] =
\* data.get(household,0)+tokens; json.dump(data, open(STORE,'w')); return
\* tokens.  The dump replaces the whole file by the dict loaded on line 8.
\* (open(STORE,'w') empties the file before the dump fills it; a load in
\* that window raises and its call returns nothing, so it is not a step.)
AwardDump(s) ==
    /\ award[s].pc = "loaded"
    /\ LET f      == award[s]
           tokens == int_weight_x10(f.weight)
           data   == dict_set(f.data, f.household,
                              dict_get(f.data, f.household, 0) + tokens)
       IN  /\ tokens_json' = data
           /\ granted' = [granted EXCEPT ![f.household] =
                             [n |-> @.n + 1, sum |-> @.sum + tokens]]
           /\ last_award' = Some([household |-> f.household,
                                  material |-> f.material,
                                  weight |-> f.weight,
                                  ret |-> tokens,
                                  read |-> f.data,
                                  before |-> tokens_json,
                                  after |-> data])
    /\ award' = [award EXCEPT ![s] = IdleFrame]

(***************************************************************************)
(* modules/ledger.py and modules/db.py: settlement and the ledger store.   *)
(***************************************************************************)

\* json.dumps(payload, sort_keys=True): the (key, value) pairs in ascending
\* key order.  KeyOrder lists the keys a payload may hold, sorted.
KeyOrder == << "collector", "created_at", "household", "material", "photo",
               "price_per_kg", "total", "weight" >>

json_dumps_sort_keys(payload) ==
    LET keys == SelectSeq(KeyOrder, LAMBDA k : k \in DOMAIN payload)
    IN  [i \in 1..Len(keys) |-> << keys[i], payload[keys[i]] >>]

\* hashlib.sha256(raw).hexdigest(): a digest, taken to be injective
sha256_hexdigest(raw) == << "sha256", raw >>

\* line 8: the digested payload
payload_with_photo(household, collector, material, weight, price_per_kg, total, created_at, photo) ==
    [household |-> household, collector |-> collector, material |-> material,
     weight |-> weight, price_per_kg |-> price_per_kg, total |-> total,
     created_at |-> created_at, photo |-> photo]

tx_payload(household, collector, material, weight, price_per_kg, total, created_at, photo) ==
    [household |-> household, collector |-> collector, material |-> material,
     weight |-> weight, price_per_kg |-> price_per_kg, total |-> total,
     created_at |-> created_at]

\* record_transaction, lines 6-11: the entry built from the arguments and
\* the clock reading created_at
record_transaction_entry(created_at, household, collector, material, weight, price_per_kg, photo) ==
    LET total   == weight * price_per_kg
        payload == tx_payload(household, collector, material, weight,
                              price_per_kg, total, created_at, photo)
        tx_hash == sha256_hexdigest(json_dumps_sort_keys(payload))
    IN  [tx_id |-> tx_hash, created_at |-> created_at, household |-> household,
         collector |-> collector, material |-> material, weight |-> weight,
         price_per_kg |-> price_per_kg, total |-> total, verified |-> 0]

\* the ledger row an entry is stored as: entry.get('verified',0)
ledger_row(entry) ==
    [tx_id |-> entry.tx_id, created_at |-> entry.created_at,
     household |-> entry.household, collector |-> entry.collector,
     material |-> entry.material, weight |-> entry.weight,
     price_per_kg |-> entry.price_per_kg, total |-> entry.total,
     verified |-> dict_get(entry, "verified", 0)]

\* db.add_ledger_entry: INSERT OR REPLACE on the PRIMARY KEY tx_id: the row
\* holding that tx_id, if any, is deleted and the new row inserted.
add_ledger_entry_or_ignore(tbl, entry) ==
    IF \E i \in 1..Len(tbl) : tbl[i].tx_id = entry.tx_id
    THEN tbl
    ELSE Append(tbl, ledger_row(entry))

add_ledger_entry(tbl, entry) ==
    Append(SelectSeq(tbl, LAMBDA r : r.tx_id # entry.tx_id), ledger_row(entry))

TxIds(tbl) == {tbl[i].tx_id : i \in 1..Len(tbl)}

\* datetime.utcnow() reads a wall clock of finite resolution: two reads with
\* no tick between them return the same value.
Tick ==
    /\ now < MaxTime
    /\ now' = now + 1
    /\ UNCHANGED << ledger, calls, upsert >>

\* ledger.record_transaction, the whole call: entry built, written, returned
RecordTransaction(household, collector, material, weight, price_per_kg, photo) ==
    /\ LET entry == record_transaction_entry(now, household, collector, material,
                                             weight, price_per_kg, photo)
       IN  /\ ledger' = add_ledger_entry(ledger, entry)
           /\ upsert' = Some([entry |-> entry, before |-> ledger])
           /\ calls' = Append(calls, [household |-> household, collector |-> collector,
                                      material |-> material, weight |-> weight,
                                      price_per_kg |-> price_per_kg, photo |-> photo,
                                      created_at |-> now, entry |-> entry])
    /\ UNCHANGED now

\* db.add_ledger_entry called with an entry of the caller's making
AddLedgerEntry(entry) ==
    /\ ledger' = add_ledger_entry(ledger, entry)
    /\ upsert' = Some([entry |-> entry, before |-> ledger])
    /\ UNCHANGED << now, calls >>

\* settlement inputs: a base call and the calls differing from it in one
\* argument (household, collector, material, weight, price_per_kg, photo)
TxBase == << "H1", "Pengepul B", "Plastik PET", 200, 4000, None >>
TxInputs ==
    {TxBase} \cup
    {[TxBase EXCEPT ![1] = "H2"], [TxBase EXCEPT ![2] = "Pengepul A"],
     [TxBase EXCEPT ![3] = "Kertas"], [TxBase EXCEPT ![4] = 250],
     [TxBase EXCEPT ![5] = 5000], [TxBase EXCEPT ![6] = Some("uploads/p.jpg")]}

\* entries handed to db.add_ledger_entry directly: under the tx_id of the
\* base settlement at time 0 or 1, with or without the key 'verified'
DirectEntries ==
    LET E(t, h) == record_transaction_entry(t, h, TxBase[2], TxBase[3],
                                            TxBase[4], TxBase[5], None)
        Tx(t)   == E(t, "H1").tx_id
        NoVerified(e) == [k \in DOMAIN e \ {"verified"} |-> e[k]]
    IN  {[E(0, "H1") EXCEPT !.verified = 1],
         NoVerified([E(0, "H2") EXCEPT !.tx_id = Tx(0)]),
         [E(1, "H1") EXCEPT !.verified = 1]}

(***************************************************************************)
(* modules/matchmaking.py                                                  *)
(***************************************************************************)

\* the list of lines 2-6 (lat, lon in hundredths of a degree)
ShippedCollectors ==
    << [name |-> "Pengepul A", lat |-> -690, lon |-> 10760, price_per_kg |-> 5000,
        waste_types |-> << "Plastik PET", "Kertas" >>],
       [name |-> "Pengepul B", lat |-> -692, lon |-> 10758, price_per_kg |-> 4000,
        waste_types |-> << "Plastik PET", "HDPE" >>],
       [name |-> "Bank Sampah C", lat |-> -691, lon |-> 10759, price_per_kg |-> 3000,
        waste_types |-> << "Kertas", "Kaca", "Logam" >>] >>

\* x in list
InList(x, list) == \E i \in 1..Len(list) : list[i] = x

\* sorted(c, key=price_per_kg): a stable sort; x goes behind every element
\* whose key is not greater than its own.
RECURSIVE InsertByPrice(_, _)
InsertByPrice(x, sortedSeq) ==
    IF sortedSeq = << >> THEN << x >>
    ELSE IF x.price_per_kg < Head(sortedSeq).price_per_kg
         THEN << x >> \o sortedSeq
         ELSE << Head(sortedSeq) >> \o InsertByPrice(x, Tail(sortedSeq))

RECURSIVE SortedPrefix(_, _)
SortedPrefix(c, n) ==
    IF n = 0 THEN << >> ELSE InsertByPrice(c[n], SortedPrefix(c, n - 1))

sorted_by_price(c) == SortedPrefix(c, Len(c))

\* an unstable variant: x goes in front of the elements of equal key
RECURSIVE InsertBeforeEqual(_, _)
InsertBeforeEqual(x, sortedSeq) ==
    IF sortedSeq = << >> THEN << x >>
    ELSE IF x.price_per_kg <= Head(sortedSeq).price_per_kg
         THEN << x >> \o sortedSeq
         ELSE << Head(sortedSeq) >> \o InsertBeforeEqual(x, Tail(sortedSeq))

RECURSIVE UnstablePrefix(_, _)
UnstablePrefix(c, n) ==
    IF n = 0 THEN << >> ELSE InsertBeforeEqual(c[n], UnstablePrefix(c, n - 1))

find_collectors_for_unstable(collectors, material) ==
    LET c == SelectSeq(collectors, LAMBDA x : InList(material, x.waste_types))
    IN  UnstablePrefix(c, Len(c))

\* find_collectors_for: the comprehension, then sorted()
find_collectors_for(collectors, material) ==
    LET c == SelectSeq(collectors, LAMBDA x : InList(material, x.waste_types))
    IN  sorted_by_price(c)

\* the list after the call: the comprehension and sorted() both build new
\* lists, COLLECTORS itself is not written.
collectors_after_find(collectors, material) == collectors

MatchLabels == {"Plastik PET", "HDPE", "Kertas", "Logam", "Organik"}

FindCollectors(material) ==
    /\ found' = Some([material |-> material,
                      list |-> COLLECTORS,
                      result |-> find_collectors_for(COLLECTORS, material)])
    /\ COLLECTORS' = collectors_after_find(COLLECTORS, material)

(***************************************************************************)
(* The household flow (spec section 2): find_collectors_for, take the      *)
(* first result, create_pickup, record_transaction, award_tokens.          *)
(***************************************************************************)
FlowWeights == {0, 200, 320}
FlowSession == "s1"

IdleFlow == [pc |-> "idle", household |-> "", address |-> "", material |-> "",
             weight |-> 0, chosen |-> None, handle |-> None, entry |-> None,
             rows0 |-> << >>, ledger0 |-> << >>, balance0 |-> 0]

\* matching; the flow goes on only when a collector was found
FlowMatch(household, address, material, weight) ==
    /\ flow.pc \in {"idle", "done"}
    /\ Len(db_requests) < MaxFlows
    /\ FindCollectors(material)
    /\ LET result == find_collectors_for(COLLECTORS, material)
       IN  /\ result # << >>
           /\ flow' = [IdleFlow EXCEPT !.pc = "matched", !.household = household,
                                       !.address = address, !.material = material,
                                       !.weight = weight, !.chosen = Some(result[1]),
                                       !.rows0 = db_requests, !.ledger0 = ledger,
                                       !.balance0 = get_balance(household)]

FlowSchedule ==
    /\ flow.pc = "matched"
    /\ CreatePickup(flow.household, flow.address, flow.chosen[1].name,
                    flow.material, flow.weight)
    /\ flow' = [flow EXCEPT !.pc = "scheduled", !.handle = pickup']

FlowSettle ==
    /\ flow.pc = "scheduled"
    /\ RecordTransaction(flow.household, flow.chosen[1].name, flow.material,
                         flow.weight, flow.chosen[1].price_per_kg, None)
    /\ flow' = [flow EXCEPT !.pc = "settled", !.entry = Some(upsert'[1].entry)]

FlowRewardLoad ==
    /\ flow.pc = "settled"
    /\ AwardLoad(FlowSession, flow.household, flow.material, flow.weight)
    /\ flow' = [flow EXCEPT !.pc = "rewarding"]

FlowRewardDump ==
    /\ flow.pc = "rewarding"
    /\ AwardDump(FlowSession)
    /\ flow' = [flow EXCEPT !.pc = "done"]

(***************************************************************************)
(* Specifications.                                                         *)
(***************************************************************************)
Init ==
    /\ requests = << >>
    /\ session = [s \in Sessions |-> [pc |-> "idle", df_open |-> {}]]
    /\ row_changes = << >>
    /\ submitted = None
    /\ db_requests = << >>
    /\ pickup = None
    /\ tokens_json = EmptyDict
    /\ award = [s \in Sessions |-> IdleFrame]
    /\ granted = [h \in Households |-> [n |-> 0, sum |-> 0]]
    /\ last_award = None
    /\ ledger = << >>
    /\ now = 0
    /\ calls = << >>
    /\ upsert = None
    /\ COLLECTORS = ShippedCollectors
    /\ found = None
    /\ flow = IdleFlow

\* the request stores: households submit, collectors list and assign, the
\* scheduler creates pickups
SubmitInputs ==
    {<< "H1", "Plastik PET", 200, None, [outcome |-> "off", text |-> << >>] >>,
     << "H2", "Kertas", 0,
        Some([name |-> "1_a.jpg", readable |-> TRUE, decodable |-> TRUE,
              brightness |-> 200, ratio10 |-> 10]),
        [outcome |-> "text", text |-> << "Kertas, Clean" >>] >>}

PickupInputs == {<< "H1", "Jl. Merdeka 1", "Pengepul B", "Plastik PET", 200 >>,
                 << "H2", "Jl. Asia 2", "Bank Sampah C", "Kertas", 0 >>}

NextRequests ==
    \/ \E i \in SubmitInputs :
          Len(requests) < MaxRequests /\ HouseholdSubmit(i[1], i[2], i[3], i[4], i[5])
          /\ UNCHANGED << dbReqVars, tokVars, ledVars, matchVars, flow >>
    \/ \E s \in Sessions :
          CollectorList(s)
          /\ UNCHANGED << dbReqVars, tokVars, ledVars, matchVars, flow >>
    \/ \E s \in Sessions, id \in 1..MaxRequests, name \in TypedNames :
          CollectorAssign(s, id, name)
          /\ UNCHANGED << dbReqVars, tokVars, ledVars, matchVars, flow >>
    \/ \E i \in PickupInputs :
          Len(db_requests) < MaxPickups /\ CreatePickup(i[1], i[2], i[3], i[4], i[5])
          /\ UNCHANGED << reqVars, tokVars, ledVars, matchVars, flow >>

SpecRequests == Init /\ [][NextRequests]_vars

\* the token store: sessions run award_tokens, their file reads and writes
\* interleave
NextTokens ==
    \/ \E s \in Sessions, h \in Households, m \in Materials, w \in Weights :
          AwardsStarted < MaxAwards /\ AwardLoad(s, h, m, w)
          /\ UNCHANGED << reqVars, dbReqVars, ledVars, matchVars, flow >>
    \/ \E s \in Sessions :
          AwardDump(s)
          /\ UNCHANGED << reqVars, dbReqVars, ledVars, matchVars, flow >>

SpecTokens == Init /\ [][NextTokens]_vars

\* the ledger store: direct writes, settlements of two households, the clock
LedgerTxInputs == {TxBase, [TxBase EXCEPT ![1] = "H2"]}

NextLedger ==
    \/ Tick /\ UNCHANGED << reqVars, dbReqVars, tokVars, matchVars, flow >>
    \/ \E i \in LedgerTxInputs :
          Len(calls) < MaxCalls /\ RecordTransaction(i[1], i[2], i[3], i[4], i[5], i[6])
          /\ UNCHANGED << reqVars, dbReqVars, tokVars, matchVars, flow >>
    \/ \E e \in DirectEntries :
          AddLedgerEntry(e)
          /\ UNCHANGED << reqVars, dbReqVars, tokVars, matchVars, flow >>

SpecLedger == Init /\ [][NextLedger]_vars

\* settlement: record_transaction over TxInputs, the clock running
NextSettle ==
    \/ Tick /\ UNCHANGED << reqVars, dbReqVars, tokVars, matchVars, flow >>
    \/ \E i \in TxInputs :
          Len(calls) < MaxCalls /\ RecordTransaction(i[1], i[2], i[3], i[4], i[5], i[6])
          /\ UNCHANGED << reqVars, dbReqVars, tokVars, matchVars, flow >>

SpecSettle == Init /\ [][NextSettle]_vars

\* matchmaking over every collector list of at most MaxList collectors
\* drawn from the shipped ones and one more whose price ties with another
CollectorPool ==
    {ShippedCollectors[i] : i \in 1..Len(ShippedCollectors)}
    \cup {[name |-> "Pengrajin D", lat |-> -693, lon |-> 10757, price_per_kg |-> 4000,
           waste_types |-> << "Plastik PET", "Kertas" >>]}

CollectorLists == UNION {[1..n -> CollectorPool] : n \in 0..MaxList}

InitMatch ==
    /\ requests = << >>
    /\ session = [s \in Sessions |-> [pc |-> "idle", df_open |-> {}]]
    /\ row_changes = << >>
    /\ submitted = None
    /\ db_requests = << >>
    /\ pickup = None
    /\ tokens_json = EmptyDict
    /\ award = [s \in Sessions |-> IdleFrame]
    /\ granted = [h \in Households |-> [n |-> 0, sum |-> 0]]
    /\ last_award = None
    /\ ledger = << >>
    /\ now = 0
    /\ calls = << >>
    /\ upsert = None
    /\ COLLECTORS \in CollectorLists
    /\ found = None
    /\ flow = IdleFlow

NextMatch ==
    \E m \in MatchLabels :
        FindCollectors(m)
        /\ UNCHANGED << reqVars, dbReqVars, tokVars, ledVars, flow >>

SpecMatch == InitMatch /\ [][NextMatch]_vars

\* the household flow, one household at a time, the clock running
NextFlow ==
    \/ \E h \in Households, m \in MatchLabels, w \in FlowWeights :
          FlowMatch(h, "Jl. Merdeka 1", m, w)
          /\ UNCHANGED << reqVars, dbReqVars, tokVars, ledVars >>
    \/ FlowSchedule /\ UNCHANGED << reqVars, tokVars, ledVars, matchVars >>
    \/ FlowSettle /\ UNCHANGED << reqVars, dbReqVars, tokVars, matchVars >>
    \/ FlowRewardLoad /\ UNCHANGED << reqVars, dbReqVars, ledVars, matchVars >>
    \/ FlowRewardDump /\ UNCHANGED << reqVars, dbReqVars, ledVars, matchVars >>
    \/ Tick /\ UNCHANGED << reqVars, dbReqVars, tokVars, matchVars, flow >>

SpecFlow == Init /\ [][NextFlow]_vars

\* the household submit path over the photos and the classifier outcomes
Images ==
    {[name |-> "1_a.jpg", readable |-> TRUE, decodable |-> TRUE,
      brightness |-> 200, ratio10 |-> 10],
     [name |-> "2_b.jpg", readable |-> TRUE, decodable |-> TRUE,
      brightness |-> 100, ratio10 |-> 20],
     [name |-> "3_c.png", readable |-> TRUE, decodable |-> TRUE,
      brightness |-> 130, ratio10 |-> 18],
     [name |-> "4_d.png", readable |-> TRUE, decodable |-> FALSE,
      brightness |-> 0, ratio10 |-> 10],
     [name |-> "5_e.jpg", readable |-> FALSE, decodable |-> TRUE,
      brightness |-> 200, ratio10 |-> 10]}

GeminiOutcomes ==
    {[outcome |-> "off", text |-> << >>],
     [outcome |-> "raises", text |-> << >>],
     [outcome |-> "text", text |-> << >>],
     [outcome |-> "text", text |-> << "", "" >>],
     [outcome |-> "text", text |-> << "Plastik PET, Clean" >>],
     [outcome |-> "text", text |-> << "", "Kertas, Contaminated", "", "note" >>]}

NextSubmit ==
    \/ \E i \in Images, g \in GeminiOutcomes :
          Len(requests) < MaxRequests
          /\ HouseholdSubmit("H1", "Plastik PET", 200, Some(i), g)
          /\ UNCHANGED << dbReqVars, tokVars, ledVars, matchVars, flow >>
    \/ \E g \in GeminiOutcomes :
          Len(requests) < MaxRequests
          /\ HouseholdSubmit("H2", "Kertas", 0, None, g)
          /\ UNCHANGED << dbReqVars, tokVars, ledVars, matchVars, flow >>

SpecSubmit == Init /\ [][NextSubmit]_vars

(***************************************************************************)
(* Properties.                                                             *)
(***************************************************************************)
Rows(tbl) == {tbl[i] : i \in 1..Len(tbl)}

\* C1, state part: every request of either store is OPEN or ASSIGNED, and
\* its collector column is non-NULL exactly when it is ASSIGNED.
C1_StatusState ==
    /\ \A r \in Rows(requests) :
          /\ r.status \in {"OPEN", "ASSIGNED"}
          /\ (r.assigned_collector # None) <=> (r.status = "ASSIGNED")
    /\ \A r \in Rows(db_requests) :
          /\ r.status \in {"OPEN", "ASSIGNED"}
          /\ (r.collector # None) <=> (r.status = "ASSIGNED")

\* C1, step part: a request that is ASSIGNED is still there and ASSIGNED
\* after any step.
C1_NoReverse ==
    /\ \A r \in Rows(requests) :
          r.status = "ASSIGNED" =>
             \E q \in Rows(requests') : q.id = r.id /\ q.status = "ASSIGNED"
    /\ \A r \in Rows(db_requests) :
          r.status = "ASSIGNED" =>
             \E q \in Rows(db_requests') : q.id = r.id /\ q.status = "ASSIGNED"

\* C1: in every reachable state of the request stores, under add_request /
\* create_pickup and assign_collector, every request is OPEN or ASSIGNED with
\* assigned_collector non-null iff ASSIGNED, and no step takes a request
\* from ASSIGNED back to OPEN.
C1_StatusInvariant == [] C1_StatusState /\ [][C1_NoReverse]_vars

\* C1 witness: one request assigned (to the empty name a collector may type),
\* another still open, and a pickup created in the scheduler's store.
C1_Witness ==
    /\ \E r \in Rows(requests) :
          r.status = "ASSIGNED" /\ r.assigned_collector = Some("")
    /\ \E r \in Rows(requests) : r.status = "OPEN"
    /\ db_requests # << >>

\* C2 (as claimed): every request is created OPEN and changed by at most
\* one assign_collector call, after which its assigned_collector stays; no
\* row is deleted (row i keeps id i).
C2_AssignedAtMostOnce ==
    /\ Len(row_changes) = Len(requests)
    /\ \A i \in 1..Len(requests) :
          /\ requests[i].id = i
          /\ row_changes[i] <= 1
          /\ (row_changes[i] = 0) <=> (requests[i].status = "OPEN")

\* C3 (as claimed): get_balance(H) is the sum of the amounts returned by the
\* completed award_tokens(H, ...) calls, whatever the interleaving.
C3_BalanceIsSumOfAwards ==
    \A h \in Households : get_balance(h) = granted[h].sum

\* the rows of tbl under a tx_id other than tx, in table order
OtherRows(tbl, tx) == SelectSeq(tbl, LAMBDA r : r.tx_id # tx)

SamePayloadFields(a, b) ==
    /\ a.household = b.household
    /\ a.collector = b.collector
    /\ a.material = b.material
    /\ a.weight = b.weight
    /\ a.price_per_kg = b.price_per_kg
    /\ a.created_at = b.created_at

\* C5: two record_transaction calls with the same household, collector,
\* material, weight, price_per_kg and created_at return the same tx_id and
\* the same entry, whatever the ledger held and whatever photo was passed;
\* two calls differing in one of those fields return different tx_ids; the
\* total of an entry is weight * price_per_kg.
C5_TxIdPureOfPayload ==
    \A i, j \in 1..Len(calls) :
        /\ SamePayloadFields(calls[i], calls[j]) => calls[i].entry = calls[j].entry
        /\ ~SamePayloadFields(calls[i], calls[j]) =>
              calls[i].entry.tx_id # calls[j].entry.tx_id
        /\ calls[i].entry.total = calls[i].weight * calls[i].price_per_kg

\* C5 witness: two calls at one clock reading, equal but for the photo, the
\* second on a ledger that already held a row, returned one tx_id.
C5_Witness ==
    /\ Len(calls) = 2
    /\ SamePayloadFields(calls[1], calls[2])
    /\ calls[1].photo # calls[2].photo
    /\ calls[1].entry.tx_id = calls[2].entry.tx_id
    /\ upsert[1].before # << >>

\* C6: find_collectors_for(M) returns exactly the collectors of the list
\* that accept M, each once, ascending by price_per_kg, collectors of equal
\* price in list order; the empty list when none accepts M; the list itself
\* is left as it was.
C6_MatchExactSortedStable ==
    found # None =>
        LET list   == found[1].list
            result == found[1].result
            idx    == {i \in 1..Len(list) : InList(found[1].material, list[i].waste_types)}
            Before(j, i) == \/ list[j].price_per_kg < list[i].price_per_kg
                            \/ /\ list[j].price_per_kg = list[i].price_per_kg
                               /\ j < i
            Rank(i) == Cardinality({j \in idx : Before(j, i)}) + 1
        IN  /\ Len(result) = Cardinality(idx)
            /\ \A i \in idx : result[Rank(i)] = list[i]
            /\ COLLECTORS = list

\* C6 witness: on the shipped list "Plastik PET" gives Pengepul B (4000)
\* before Pengepul A (5000).
C6_Witness ==
    /\ found # None
    /\ COLLECTORS = ShippedCollectors
    /\ found[1].material = "Plastik PET"
    /\ found[1].result = << ShippedCollectors[2], ShippedCollectors[1] >>

\* the balance a dict holds for a household
Balance(data, h) == dict_get(data, h, 0)

C8_BalanceNeverDecreases ==
    last_award # None =>
        \A h \in Households :
            Balance(last_award[1].after, h) >= Balance(last_award[1].before, h)

\* C9 (as claimed): when the flow find -> create_pickup -> record_transaction
\* -> award_tokens is done, there is exactly one new request row, for H and
\* OPEN, exactly one new ledger row, equal to the returned entry, its total
\* w * price_per_kg of the chosen collector, balance(H) is up by floor(w*10),
\* and the handle echoes the stored status and the collector's name.
C9_FlowEndState ==
    flow.pc = "done" =>
        LET c   == flow.chosen[1]
            row == db_requests[Len(db_requests)]
            e   == flow.entry[1]
        IN  /\ Len(db_requests) = Len(flow.rows0) + 1
            /\ SubSeq(db_requests, 1, Len(flow.rows0)) = flow.rows0
            /\ row.household = flow.household
            /\ row.status = "OPEN"
            /\ Len(ledger) = Len(flow.ledger0) + 1
            /\ \E r \in Rows(ledger) :
                  /\ r = ledger_row(e)
                  /\ r.tx_id \notin TxIds(flow.ledger0)
                  /\ r.total = flow.weight * c.price_per_kg
            /\ get_balance(flow.household) = flow.balance0 + flow.weight \div 10
            /\ flow.handle[1].status = row.status
            /\ flow.handle[1].collector = c.name

SameInputs(a, b) ==
    /\ a.household = b.household
    /\ a.collector = b.collector
    /\ a.material = b.material
    /\ a.weight = b.weight
    /\ a.price_per_kg = b.price_per_kg

\* C10 (as claimed): two distinct record_transaction calls with the same
\* household, collector, material, weight and price_per_kg get different
\* tx_ids, so n calls leave n rows and no settlement overwrites another.
C10_FreshTxIdPerCall ==
    /\ \A i, j \in 1..Len(calls) :
          (i # j /\ SameInputs(calls[i], calls[j])) =>
             calls[i].entry.tx_id # calls[j].entry.tx_id
    /\ Len(ledger) = Len(calls)

\* the first line of a text that is not blank, None when every line is
NonBlankLine(text) ==
    LET idx == {i \in 1..Len(text) : text[i] # ""}
    IN  IF idx = {} THEN None
        ELSE Some(text[CHOOSE i \in idx : \A j \in idx : i <= j])

====
